---- MODULE Spec2Model ----
\* Instant messenger relay: the server's registry, group directory and command
\* router (src/server.py) and the client's datagram receive path (src/client.py).
EXTENDS Integers, Sequences, FiniteSets, TLC

\* ---------------------------------------------------------------- bounds
\* Connections the listening socket accepts over a run; a connection's socket
\* object is identified by its place in the order of acceptance.
MaxConnections == 3

Sockets == 1..MaxConnections

\* Longest shared file of a datagram download, in bytes
MaxFileLen == 5

\* Bytes per datagram chunk: stands for the 1024 of Server.send_file_udp and
\* of Client.receive_file_udp, scaled to the files above
chunk_size == 2

\* Bytes per block of a streamed download: stands for the 4096 of
\* Server.send_file_tcp, scaled likewise
block_size == 2

Bytes == {0, 1}

\* ---------------------------------------------------------------- inputs
\* A text is a sequence of words; the words of a text are separated by single
\* spaces on the wire.  Usernames and group names are texts as well.
\* NoSock is None where a socket is expected, NoMsg the None receive_message
\* returns at end of stream.
NoSock == 0
NoMsg == <<"<None>">>

Usernames == { <<"alice">>, <<"bob">> }
GroupNames == { <<"g1">> }

\* Frames a client may send (already decoded by receive_message).
Frames ==
    { <<"/LEAVE">>, <<"/BROADCAST">>, <<"/BROADCAST", "hi", "there">>,
      <<"/unicast", "bob", "hi", "a:b">>, <<"/UNICAST", "alice">>,
      <<"/JOINGROUP">>, <<"/LEAVEGROUP">>, <<"/GROUP", "g1">>,
      <<"/LISTUSERS">>, <<"/LISTGROUPS">>,
      <<"/BRODCAST", "hi", "there">>, <<>>,
      <<"/LISTFILES">>, <<"/DOWNLOAD">>, <<"/DOWNLOAD", "f">>,
      <<"/download", "f", "tcp">>, <<"/DOWNLOAD", "f", "udp">>,
      <<"/DOWNLOAD", "nofile", "UDP">>, <<"/DOWNLOAD", "d">>,
      <<"/DOWNLOAD", "f", "FTP">> }
    \cup { <<"/JOINGROUP">> \o g : g \in GroupNames }
    \cup { <<"/LEAVEGROUP">> \o g : g \in GroupNames }
    \cup { <<"/group">> \o g \o <<"hi", "all">> : g \in GroupNames }

VARIABLES
    accepted,   \* connections accepted so far
    clients,    \* Server.clients: insertion-ordered dict, sock -> username
    groups,     \* Server.groups: insertion-ordered dict, name -> list of socks
    failing,    \* registered sockets whose peer is gone: sendall on them raises
    event,      \* the event the server is processing, Idle between events
    before,     \* clients, groups and failing as they were when it began
    delivered   \* the frames written successfully while processing it

srv_vars == <<accepted, clients, groups, failing, event, before, delivered>>

VARIABLES
    file,                \* the shared file being downloaded, a byte sequence
    srv_pc,              \* where Server.send_file_udp stands
    chunk_num,           \* send_file_udp: the next chunk number
    ctrl,                \* control frames on the stream, server to client
    net,                 \* datagrams in flight to the client's port
    sent,                \* the datagrams send_file_udp has passed to sendto, in order
    udp_socket,          \* Client.udp_socket is bound
    udp_pc,              \* where the thread running Client.receive_file_udp stands
    download_file_size,  \* Client.download_file_size
    download_chunks,     \* Client.download_chunks: chunk number -> bytes
    download_received,   \* Client.download_received
    arrived,             \* chunk numbers handed to recvfrom at least once
    repeated,            \* chunk numbers handed to recvfrom more than once
    written,             \* the file receive_file_udp wrote
    report               \* what receive_file_udp printed

udp_vars == <<file, srv_pc, chunk_num, ctrl, net, sent, udp_socket, udp_pc,
              download_file_size, download_chunks, download_received,
              arrived, repeated, written, report>>

VARIABLES
    request,        \* what the server was asked to write to the client
    wrote,          \* every byte the server has written to the stream
    stream,         \* bytes written and still in flight
    buf,            \* bytes that have arrived at the client's socket, unread
    closed,         \* the server's end of the stream is gone
    cl_pc,          \* where the thread running Client.receive_messages stands
    length_data,    \* receive_message, receive_file_tcp: length_data
    message_len,    \* receive_message: message_len
    message_buf,    \* receive_message: message
    whole,          \* all that was written had arrived when receive_message began
    returned,       \* the values receive_message has returned
    download_size,  \* receive_file_tcp: file_size
    received,       \* receive_file_tcp: received
    chunk_len,      \* receive_file_tcp: chunk_len
    chunk_buf,      \* receive_file_tcp: chunk
    saved,          \* the file receive_file_tcp has written
    printed         \* what the client has printed

tcp_vars == <<request, wrote, stream, buf, closed, cl_pc, length_data,
              message_len, message_buf, whole, returned, download_size,
              received, chunk_len, chunk_buf, saved, printed>>

VARIABLES
    unread,         \* frames registered peers have written and the server has not read
    running         \* Server.start is in its while loop: no exception has reached it

loop_vars == <<unread, running>>

VARIABLES
    up,             \* the writes on the client's socket, in the order they were made
    input_pc,       \* where the thread running Client.handle_input stands
    input_text,     \* Client.send_message in that thread: message
    main_pc,        \* where the main thread stands in Client.run
    client_running  \* Client.running

snd_vars == <<up, input_pc, input_text, main_pc, client_running>>

vars == <<srv_vars, udp_vars, tcp_vars, loop_vars, snd_vars>>

\* ------------------------------------------------------ dict/list helpers
\* list(self.clients.keys())
keys(c) == [i \in DOMAIN c |-> c[i].sock]

ClientSocks(c) == { c[i].sock : i \in DOMAIN c }

\* self.clients[sock]['username']
username_of(c, sock) == c[CHOOSE i \in DOMAIN c : c[i].sock = sock].username

\* del self.clients[sock]
del_client(c, sock) == SelectSeq(c, LAMBDA e : e.sock # sock)

InList(lst, x) == \E i \in DOMAIN lst : lst[i] = x

\* list.remove(x): drops the first occurrence of x
list_remove(lst, x) ==
    IF ~InList(lst, x) THEN lst
    ELSE LET k == CHOOSE i \in DOMAIN lst :
                     lst[i] = x /\ \A j \in 1..(i-1) : lst[j] # x
         IN SubSeq(lst, 1, k-1) \o SubSeq(lst, k+1, Len(lst))

\* group_name in self.groups
has_group(g, name) == \E i \in DOMAIN g : g[i].name = name

\* self.groups[group_name]
members_of(g, name) == g[CHOOSE i \in DOMAIN g : g[i].name = name].members

set_members(g, name, lst) ==
    [i \in DOMAIN g |-> IF g[i].name = name
                        THEN [name |-> name, members |-> lst] ELSE g[i]]

\* del self.groups[group_name]
del_group(g, name) == SelectSeq(g, LAMBDA e : e.name # name)

\* sep.join(list of texts)
RECURSIVE join(_, _)
join(sep, texts) ==
    IF texts = <<>> THEN <<>>
    ELSE IF Len(texts) = 1 THEN texts[1]
    ELSE texts[1] \o <<sep>> \o join(sep, Tail(texts))

\* str.upper() on the words clients send
upper(w) ==
    CASE w = "/unicast" -> "/UNICAST"
      [] w = "/group"   -> "/GROUP"
      [] w = "/download" -> "/DOWNLOAD"
      [] w = "tcp"      -> "TCP"
      [] w = "udp"      -> "UDP"
      [] w = "hello"    -> "HELLO"
      [] w = "hi"       -> "HI"
      [] w = "alice"    -> "ALICE"
      [] w = "bob"      -> "BOB"
      [] w = "carol"    -> "CAROL"
      [] w = "g1"       -> "G1"
      [] w = "g2"       -> "G2"
      [] OTHER          -> w

\* A split that always yields three parts, empty where the frame has none
split2_padded(message) ==
    << IF Len(message) >= 1 THEN <<message[1]>> ELSE <<>>,
       IF Len(message) >= 2 THEN <<message[2]>> ELSE <<>>,
       SubSeq(message, 3, Len(message)) >>

\* message.strip().split(' ', 2): at most three parts, the third being the
\* whole remainder
split2(message) ==
    IF Len(message) = 0 THEN << <<>> >>
    ELSE IF Len(message) = 1 THEN << <<message[1]>> >>
    ELSE IF Len(message) = 2 THEN << <<message[1]>>, <<message[2]>> >>
    ELSE << <<message[1]>>, <<message[2]>>, SubSeq(message, 3, Len(message)) >>

\* ------------------------------------------------------- message texts
welcome_msg == <<"Welcome to the Instant Messenger Server!">>
join_msg(username) == username \o <<"has joined">>
leave_msg(username) == username \o <<"has left">>
broadcast_msg(username, text) == <<"[BROADCAST]">> \o username \o <<":">> \o text
\* A default broadcast that carries the first word of the frame only
default_msg_first(username, message) == username \o <<":", message[1]>>

default_msg(username, message) == username \o <<":">> \o message
unicast_msg(username, text) == <<"[UNICAST]">> \o username \o <<":">> \o text
group_msg(name, username, text) ==
    <<"[GROUP:">> \o name \o <<"]">> \o username \o <<":">> \o text
not_found_msg(target) == <<"User '">> \o target \o <<"' not found">>
no_group_msg(name) == <<"Group '">> \o name \o <<"' does not exist">>
joined_msg(name) == <<"Joined group '">> \o name \o <<"'">>
already_msg(name) == <<"Already in group '">> \o name \o <<"'">>
left_msg(name) == <<"Left group '">> \o name \o <<"'">>
not_in_msg(name) == <<"Not in group '">> \o name \o <<"'">>
usage_unicast == <<"Usage: /UNICAST <username> <message>">>
usage_joingroup == <<"Usage: /JOINGROUP <group_name>">>
usage_leavegroup == <<"Usage: /LEAVEGROUP <group_name>">>
usage_group == <<"Usage: /GROUP <group_name> <message>">>
no_groups_msg == <<"No groups exist">>
usage_download == <<"Usage: /DOWNLOAD <filename> [TCP|UDP]">>
files_count_msg(n) ==
    <<"Successfully accessed SharedFiles folder. Number of files:", ToString(n)>>
files_list_msg(files) == <<"Files in SharedFiles:">> \o join("\n", files)
files_empty_msg == <<"SharedFiles folder is empty">>
files_error_msg == <<"Error accessing SharedFiles:", "<e>">>
file_not_found_msg(filename) == <<"ERROR: File '">> \o filename \o <<"' not found">>
not_a_file_msg(filename) == <<"ERROR: '">> \o filename \o <<"' is not a file">>
invalid_protocol_msg(protocol) ==
    <<"ERROR: Invalid protocol '">> \o protocol \o <<"'. Use TCP or UDP">>
\* The control frames of a download are one word each, spelt as on the wire
info_msg(filename, file_size) ==
    << "DOWNLOAD_START:" \o filename[1] \o ":" \o ToString(file_size) >>
complete_msg(filename, file_size) ==
    << "DOWNLOAD_COMPLETE:" \o filename[1] \o ":" \o ToString(file_size) >>
info_udp_msg(filename, file_size) ==
    << "DOWNLOAD_START_UDP:" \o filename[1] \o ":" \o ToString(file_size) >>
udp_port_msg == << "UDP_PORT:" \o "<port+1>" >>
complete_udp_msg(filename, file_size) ==
    << "DOWNLOAD_COMPLETE_UDP:" \o filename[1] \o ":" \o ToString(file_size) >>
failed_tcp_msg == <<"ERROR: Failed to send file:", "<e>">>
failed_udp_msg == <<"ERROR: Failed to send file via UDP:", "<e>">>

\* ------------------------------------------------- server operations
\* A server state st is [clients, groups, failing, out, exc]: the two dicts,
\* the sockets on which sendall raises, the frames written so far and whether
\* an exception is propagating.

\* Server.send_message
send_message(st, sock, message) ==
    IF sock \in st.failing
    THEN [st EXCEPT !.exc = TRUE]
    ELSE [st EXCEPT !.out = Append(@, [to |-> sock, msg |-> message])]

\* A remove_client that forgets the group directory
purge_from_groups_none(g, sock) == g

\* Server.remove_client, the loop over the groups
purge_from_groups(g, sock) ==
    LET stripped == [i \in DOMAIN g |->
                        IF InList(g[i].members, sock)
                        THEN [name |-> g[i].name,
                              members |-> list_remove(g[i].members, sock),
                              hit |-> TRUE]
                        ELSE [name |-> g[i].name, members |-> g[i].members,
                              hit |-> FALSE]]
        kept == SelectSeq(stripped, LAMBDA e : ~(e.hit /\ e.members = <<>>))
    IN [i \in DOMAIN kept |-> [name |-> kept[i].name, members |-> kept[i].members]]

RECURSIVE remove_client(_, _), broadcast_loop(_, _, _, _, _),
          group_loop(_, _, _, _, _)

\* Server.remove_client
remove_client(st, sock) ==
    IF sock \notin ClientSocks(st.clients) THEN st
    ELSE LET username == username_of(st.clients, sock)
             st1 == [st EXCEPT !.groups = purge_from_groups(@, sock),
                               !.clients = del_client(@, sock),
                               !.failing = @ \cup {sock}]
         IN broadcast_loop(st1, keys(st1.clients), 1, leave_msg(username), NoSock)

\* A broadcast that gives up at the first failed send
broadcast_loop_abort(st, snapshot, i, message, exclude_socket) ==
    IF i > Len(snapshot) THEN st
    ELSE LET sock == snapshot[i]
             r == send_message(st, sock, message)
         IN IF sock = exclude_socket
            THEN broadcast_loop(st, snapshot, i + 1, message, exclude_socket)
            ELSE IF r.exc
            THEN remove_client(st, sock)
            ELSE broadcast_loop(r, snapshot, i + 1, message, exclude_socket)

\* A broadcast that starts over from the head of the snapshot after a failed
\* send
broadcast_loop_restart(st, snapshot, i, message, exclude_socket) ==
    IF i > Len(snapshot) THEN st
    ELSE LET sock == snapshot[i]
             r == send_message(st, sock, message)
         IN IF sock = exclude_socket \/ sock \notin ClientSocks(st.clients)
            THEN broadcast_loop(st, snapshot, i + 1, message, exclude_socket)
            ELSE IF r.exc
            THEN broadcast_loop(remove_client(st, sock), snapshot, 1,
                                message, exclude_socket)
            ELSE broadcast_loop(r, snapshot, i + 1, message, exclude_socket)

\* Server.broadcast_message, the loop over the snapshot of the keys
broadcast_loop(st, snapshot, i, message, exclude_socket) ==
    IF i > Len(snapshot) THEN st
    ELSE LET sock == snapshot[i]
             r == send_message(st, sock, message)
         IN IF sock = exclude_socket
            THEN broadcast_loop(st, snapshot, i + 1, message, exclude_socket)
            ELSE IF r.exc
            THEN broadcast_loop(remove_client(st, sock), snapshot, i + 1,
                                message, exclude_socket)
            ELSE broadcast_loop(r, snapshot, i + 1, message, exclude_socket)

\* Server.broadcast_message
broadcast_message(st, message, exclude_socket) ==
    broadcast_loop(st, keys(st.clients), 1, message, exclude_socket)

\* A unicast that takes the first other connection, whatever its username
unicast_message_first(st, message, target_username, exclude_socket) ==
    LET hits == { i \in DOMAIN st.clients : st.clients[i].sock # exclude_socket }
    IN IF hits # {}
       THEN LET first == CHOOSE i \in hits : \A j \in hits : i <= j
                target_socket == st.clients[first].sock
                r == send_message(st, target_socket, message)
            IN IF r.exc THEN remove_client(st, target_socket) ELSE r
       ELSE IF exclude_socket # NoSock
       THEN send_message(st, exclude_socket, not_found_msg(target_username))
       ELSE st

\* A unicast that does not pass over the sender's own connection
unicast_message_self(st, message, target_username, exclude_socket) ==
    LET hits == { i \in DOMAIN st.clients :
                    st.clients[i].username = target_username }
    IN IF hits # {}
       THEN LET first == CHOOSE i \in hits : \A j \in hits : i <= j
                target_socket == st.clients[first].sock
                r == send_message(st, target_socket, message)
            IN IF r.exc THEN remove_client(st, target_socket) ELSE r
       ELSE IF exclude_socket # NoSock
       THEN send_message(st, exclude_socket, not_found_msg(target_username))
       ELSE st

\* Server.unicast_message
unicast_message(st, message, target_username, exclude_socket) ==
    LET hits == { i \in DOMAIN st.clients :
                    /\ st.clients[i].username = target_username
                    /\ st.clients[i].sock # exclude_socket }
    IN IF hits # {}
       THEN LET first == CHOOSE i \in hits : \A j \in hits : i <= j
                target_socket == st.clients[first].sock
                r == send_message(st, target_socket, message)
            IN IF r.exc THEN remove_client(st, target_socket) ELSE r
       ELSE IF exclude_socket # NoSock
       THEN send_message(st, exclude_socket, not_found_msg(target_username))
       ELSE st

\* Server.join_group
join_group(st, sock, group_name) ==
    LET g1 == IF has_group(st.groups, group_name) THEN st.groups
              ELSE Append(st.groups, [name |-> group_name, members |-> <<>>])
        lst == members_of(g1, group_name)
    IN IF ~InList(lst, sock)
       THEN send_message(
                [st EXCEPT !.groups = set_members(g1, group_name, Append(lst, sock))],
                sock, joined_msg(group_name))
       ELSE send_message([st EXCEPT !.groups = g1], sock, already_msg(group_name))

\* Server.leave_group
leave_group(st, sock, group_name) ==
    IF has_group(st.groups, group_name)
    THEN IF InList(members_of(st.groups, group_name), sock)
         THEN LET lst == list_remove(members_of(st.groups, group_name), sock)
                  st1 == [st EXCEPT !.groups = set_members(@, group_name, lst)]
                  r == send_message(st1, sock, left_msg(group_name))
              IN IF r.exc THEN r
                 ELSE IF lst = <<>>
                 THEN [r EXCEPT !.groups = del_group(@, group_name)]
                 ELSE r
         ELSE send_message(st, sock, not_in_msg(group_name))
    ELSE send_message(st, sock, no_group_msg(group_name))

\* Server.send_group_message, the loop over the live member list: the list
\* iterator re-reads the list's length and its i-th element on every round
group_loop(st, group_name, i, message, exclude_socket) ==
    LET lst == IF has_group(st.groups, group_name)
               THEN members_of(st.groups, group_name) ELSE <<>>
    IN IF i > Len(lst) THEN st
       ELSE LET sock == lst[i]
                r == send_message(st, sock, message)
            IN IF sock = exclude_socket
               THEN group_loop(st, group_name, i + 1, message, exclude_socket)
               ELSE IF r.exc
               THEN group_loop(remove_client(st, sock), group_name, i + 1,
                               message, exclude_socket)
               ELSE group_loop(r, group_name, i + 1, message, exclude_socket)

\* Server.send_group_message
send_group_message(st, message, group_name, exclude_socket) ==
    IF has_group(st.groups, group_name)
    THEN group_loop(st, group_name, 1, message, exclude_socket)
    ELSE IF exclude_socket # NoSock
    THEN send_message(st, exclude_socket, no_group_msg(group_name))
    ELSE st

\* Server.list_users
list_users(st, sock) ==
    LET usernames == [i \in DOMAIN st.clients |-> st.clients[i].username]
    IN send_message(st, sock,
           <<"Connected users (", ToString(Len(usernames)), "):">>
               \o join(",", usernames))

\* Server.list_groups, one line of the reply
group_line(st, grp) ==
    LET live == SelectSeq(grp.members, LAMBDA s : s \in ClientSocks(st.clients))
        member_names == [i \in DOMAIN live |-> username_of(st.clients, live[i])]
    IN grp.name \o <<"(", ToString(Len(member_names)), "members):">>
           \o join(",", member_names)

\* Server.list_groups
list_groups(st, sock) ==
    IF st.groups # <<>>
    THEN send_message(st, sock,
             join("\n", [i \in DOMAIN st.groups |-> group_line(st, st.groups[i])]))
    ELSE send_message(st, sock, no_groups_msg)

\* ---------------------------------------------------- shared storage
\* The SharedFiles folder holds a regular file f, whose content is the variable
\* file, and a directory d.
\* os.listdir(self.shared_files_path)
listdir == << <<"f">>, <<"d">> >>

\* os.path.exists(filepath)
path_exists(filename) == InList(listdir, filename)

\* os.path.isfile(filepath)
path_isfile(filename) == filename = <<"f">>

\* os.path.getsize(filepath)
getsize(filename) == Len(file)

Min(a, b) == IF a < b THEN a ELSE b

\* Server.send_file_tcp: f.read(4096) at the file's read position
read_block(f, pos) == SubSeq(f, pos + 1, Min(pos + block_size, Len(f)))

\* Server.send_file_udp: f.read(chunk_size) at the file's read position
read_chunk(f, pos) == SubSeq(f, pos + 1, Min(pos + chunk_size, Len(f)))

\* Server.list_files
list_files(st, sock) ==
    LET files == listdir
        r1 == send_message(st, sock, files_count_msg(Len(files)))
        r2 == IF r1.exc THEN r1
              ELSE IF files # <<>>
              THEN send_message(r1, sock, files_list_msg(files))
              ELSE send_message(r1, sock, files_empty_msg)
    IN IF r2.exc
       THEN send_message([r2 EXCEPT !.exc = FALSE], sock, files_error_msg)
       ELSE r2

\* Server.send_file_tcp: sock.sendall of a block's length and of the block
sendall_block(st, sock, chunk) ==
    IF sock \in st.failing
    THEN [st EXCEPT !.exc = TRUE]
    ELSE [st EXCEPT !.out = Append(@, [to |-> sock, msg |-> <<"<block>">>,
                                       data |-> chunk])]

\* Server.send_file_tcp, the read loop from read position pos on
RECURSIVE send_blocks(_, _, _)
send_blocks(st, sock, pos) ==
    LET chunk == read_block(file, pos)
        r == sendall_block(st, sock, chunk)
    IN IF chunk = <<>> THEN st
       ELSE IF r.exc THEN r
       ELSE send_blocks(r, sock, pos + Len(chunk))

\* Server.send_file_tcp
send_file_tcp(st, sock, filename, file_size) ==
    LET r1 == send_message(st, sock, info_msg(filename, file_size))
        r2 == IF r1.exc THEN r1 ELSE send_blocks(r1, sock, 0)
        r3 == IF r2.exc THEN r2
              ELSE send_message(r2, sock, complete_msg(filename, file_size))
    IN IF r3.exc
       THEN send_message([r3 EXCEPT !.exc = FALSE], sock, failed_tcp_msg)
       ELSE r3

\* Server.send_file_udp, the read loop from chunk number n on: sendto puts
\* a datagram on the network, whatever the state of the stream
RECURSIVE sendto_chunks(_, _, _)
sendto_chunks(st, sock, n) ==
    LET chunk == read_chunk(file, n * chunk_size)
    IN IF chunk = <<>> THEN st
       ELSE sendto_chunks(
                [st EXCEPT !.out = Append(@, [to |-> sock,
                                              msg |-> <<"<datagram>", ToString(n)>>,
                                              data |-> chunk])],
                sock, n + 1)

\* Server.send_file_udp
send_file_udp(st, sock, filename, file_size) ==
    LET r1 == send_message(st, sock, info_udp_msg(filename, file_size))
        r2 == IF r1.exc THEN r1 ELSE send_message(r1, sock, udp_port_msg)
        r3 == IF r2.exc THEN r2 ELSE sendto_chunks(r2, sock, 0)
        r4 == IF r3.exc THEN r3
              ELSE send_message(r3, sock, complete_udp_msg(filename, file_size))
    IN IF r4.exc
       THEN send_message([r4 EXCEPT !.exc = FALSE], sock, failed_udp_msg)
       ELSE r4

\* A download handler that announces the transfer before it looks for the file
handle_file_download_eager(st, sock, filename, protocol) ==
    LET r == send_message(st, sock, info_msg(filename, 0))
    IN IF r.exc THEN r
       ELSE IF ~path_exists(filename)
       THEN send_message(r, sock, file_not_found_msg(filename))
       ELSE IF ~path_isfile(filename)
       THEN send_message(r, sock, not_a_file_msg(filename))
       ELSE send_file_tcp(st, sock, filename, getsize(filename))

\* Server.handle_file_download
handle_file_download(st, sock, filename, protocol) ==
    IF ~path_exists(filename)
    THEN send_message(st, sock, file_not_found_msg(filename))
    ELSE IF ~path_isfile(filename)
    THEN send_message(st, sock, not_a_file_msg(filename))
    ELSE LET file_size == getsize(filename)
             mode == [i \in DOMAIN protocol |-> upper(protocol[i])]
         IN IF mode = <<"TCP">>
            THEN send_file_tcp(st, sock, filename, file_size)
            ELSE IF mode = <<"UDP">>
            THEN send_file_udp(st, sock, filename, file_size)
            ELSE send_message(st, sock, invalid_protocol_msg(protocol))

\* Server.handle_client_message, the command dispatch (the body of the try
\* after the registry test)
dispatch(st, sock, message) ==
    LET username == username_of(st.clients, sock)
        parts == split2(message)
        command == upper(parts[1][1])
    IN CASE command = "/LEAVE" -> remove_client(st, sock)
         [] command = "/BROADCAST" ->
              IF Len(parts) > 1
              THEN broadcast_message(st, broadcast_msg(username, parts[2]), sock)
              ELSE st
         [] command = "/UNICAST" ->
              IF Len(parts) >= 3
              THEN unicast_message(st, unicast_msg(username, parts[3]), parts[2], sock)
              ELSE send_message(st, sock, usage_unicast)
         [] command = "/JOINGROUP" ->
              IF Len(parts) > 1 THEN join_group(st, sock, parts[2])
              ELSE send_message(st, sock, usage_joingroup)
         [] command = "/LEAVEGROUP" ->
              IF Len(parts) > 1 THEN leave_group(st, sock, parts[2])
              ELSE send_message(st, sock, usage_leavegroup)
         [] command = "/GROUP" ->
              IF Len(parts) >= 3
              THEN send_group_message(st, group_msg(parts[2], username, parts[3]),
                                      parts[2], sock)
              ELSE send_message(st, sock, usage_group)
         [] command = "/LISTFILES" -> list_files(st, sock)
         [] command = "/DOWNLOAD" ->
              IF Len(parts) > 1
              THEN handle_file_download(
                       st, sock, parts[2],
                       IF Len(parts) > 2
                       THEN [i \in DOMAIN parts[3] |-> upper(parts[3][i])]
                       ELSE <<"TCP">>)
              ELSE send_message(st, sock, usage_download)
         [] command = "/LISTUSERS" -> list_users(st, sock)
         [] command = "/LISTGROUPS" -> list_groups(st, sock)
         [] OTHER -> broadcast_message(st, default_msg(username, message), sock)

\* A handler without its try: an exception raised while the frame is
\* handled goes on to the caller
handle_client_message_uncaught(st, sock, message) ==
    IF message = NoMsg \/ message = <<>>
    THEN remove_client(st, sock)
    ELSE IF sock \notin ClientSocks(st.clients) THEN st
    ELSE dispatch(st, sock, message)

\* Server.handle_client_message
handle_client_message(st, sock, message) ==
    IF message = NoMsg \/ message = <<>>
    THEN remove_client(st, sock)
    ELSE IF sock \notin ClientSocks(st.clients) THEN st
    ELSE LET r == dispatch(st, sock, message)
         IN IF r.exc THEN remove_client([r EXCEPT !.exc = FALSE], sock) ELSE r

\* Server.accept_client
accept_client(st, client_socket, username) ==
    LET r == send_message(st, client_socket, welcome_msg)
    IN IF r.exc THEN [r EXCEPT !.exc = FALSE]
       ELSE IF username = NoMsg \/ username = <<>> THEN r
       ELSE broadcast_message(
                [r EXCEPT !.clients = Append(@, [sock |-> client_socket,
                                                 username |-> username])],
                join_msg(username), client_socket)

\* ------------------------------------------------------------ actions
Idle == [op |-> "select", sock |-> NoSock, frame |-> NoMsg]

NoBefore == [clients |-> <<>>, groups |-> <<>>, failing |-> {}]

Commit(st0, st, ev) ==
    /\ running
    /\ running' = ~st.exc
    /\ clients' = st.clients
    /\ groups' = st.groups
    /\ failing' = st.failing \cap ClientSocks(st.clients)
    /\ delivered' = st.out
    /\ before' = [clients |-> st0.clients, groups |-> st0.groups,
                  failing |-> st0.failing]
    /\ event' = ev
    /\ UNCHANGED <<udp_vars, tcp_vars, snd_vars>>

ServerInit ==
    /\ accepted = 0
    /\ clients = <<>>
    /\ groups = <<>>
    /\ failing = {}
    /\ event = Idle
    /\ before = NoBefore
    /\ delivered = <<>>

\* Server.start: the listening socket is readable.  The peer may be gone
\* already (refused) and may close without sending a username (NoMsg).
AcceptClient ==
    \E u \in Usernames \cup {NoMsg}, refused \in BOOLEAN :
      LET s == accepted + 1
          st0 == [clients |-> clients, groups |-> groups,
                  failing |-> IF refused THEN failing \cup {s} ELSE failing,
                  out |-> <<>>, exc |-> FALSE]
      IN
        /\ event = Idle
        /\ accepted < MaxConnections
        /\ accepted' = s
        /\ UNCHANGED unread
        /\ Commit(st0, accept_client(st0, s, u),
                  [op |-> "accept", sock |-> s, frame |-> u])

\* Server.start: a client socket is readable; it holds a frame, or it is at
\* end of stream (NoMsg)
ClientReadable ==
    \E s \in ClientSocks(clients), m \in Frames \cup {NoMsg} :
      LET st0 == [clients |-> clients, groups |-> groups, failing |-> failing,
                  out |-> <<>>, exc |-> FALSE]
      IN
        /\ event = Idle
        /\ UNCHANGED <<accepted, unread>>
        /\ Commit(st0, handle_client_message(st0, s, m),
                  [op |-> "message", sock |-> s, frame |-> m])

\* Server.start: a client socket is in select's exceptional list
ClientExceptional ==
    \E s \in ClientSocks(clients) :
      LET st0 == [clients |-> clients, groups |-> groups, failing |-> failing,
                  out |-> <<>>, exc |-> FALSE]
      IN
        /\ event = Idle
        /\ UNCHANGED <<accepted, unread>>
        /\ Commit(st0, remove_client(st0, s),
                  [op |-> "exceptional", sock |-> s, frame |-> NoMsg])

\* Server.start: the handler has returned and the loop goes on to the next
\* ready socket or back to select
NextReady ==
    /\ running
    /\ event # Idle
    /\ event.op # "receive_username"
    /\ event' = Idle
    /\ before' = NoBefore
    /\ delivered' = <<>>
    /\ UNCHANGED <<accepted, clients, groups, failing>>
    /\ UNCHANGED <<udp_vars, tcp_vars, loop_vars, snd_vars>>

\* The peer of a registered socket goes away: later writes to it raise
PeerGone ==
    \E s \in ClientSocks(clients) \ failing :
        /\ event = Idle
        /\ failing' = failing \cup {s}
        /\ UNCHANGED <<accepted, clients, groups, event, before, delivered>>
        /\ UNCHANGED <<udp_vars, tcp_vars, loop_vars, snd_vars>>

ServerNext ==
    AcceptClient \/ ClientReadable \/ ClientExceptional \/ NextReady \/ PeerGone

\* ------------------------------------ the loop and a peer that stays silent
\* Server.start handles one ready socket at a time, and accept_client reads
\* the username with a blocking recv on the socket it has just accepted.
LoopIdle == unread = {} /\ running = TRUE

\* the frames a registered peer writes here
LoopFrames == { <<"hi">>, <<"/LISTUSERS">>, <<"/LEAVE">> }

Unread(s) == \E p \in unread : p.sock = s

\* Server.accept_client up to its call of receive_message: the connection is
\* accepted, the welcome is written, and the server waits for the username
AcceptClientWelcome ==
    LET s == accepted + 1
        st0 == [clients |-> clients, groups |-> groups, failing |-> failing,
                out |-> <<>>, exc |-> FALSE]
        r == send_message(st0, s, welcome_msg)
    IN
      /\ running
      /\ event = Idle
      /\ accepted < MaxConnections
      /\ accepted' = s
      /\ delivered' = r.out
      /\ before' = [clients |-> clients, groups |-> groups, failing |-> failing]
      /\ event' = [op |-> "receive_username", sock |-> s, frame |-> NoMsg]
      /\ UNCHANGED <<clients, groups, failing>>
      /\ UNCHANGED <<udp_vars, tcp_vars, loop_vars, snd_vars>>

\* The accepted peer writes its username, or closes (NoMsg): the recv in
\* accept_client returns and accept_client runs to its end
AcceptClientUsername ==
    \E u \in Usernames \cup {NoMsg} :
      LET s == event.sock
          st0 == [clients |-> clients, groups |-> groups, failing |-> failing,
                  out |-> <<>>, exc |-> FALSE]
      IN
        /\ event.op = "receive_username"
        /\ UNCHANGED <<accepted, unread>>
        /\ Commit(st0, accept_client(st0, s, u),
                  [op |-> "accept", sock |-> s, frame |-> u])

\* A registered peer writes a frame; its socket becomes readable
PeerSends ==
    \E s \in ClientSocks(clients), m \in LoopFrames :
        /\ ~Unread(s)
        /\ unread' = unread \cup { [sock |-> s, frame |-> m] }
        /\ UNCHANGED <<srv_vars, udp_vars, tcp_vars, snd_vars, running>>

\* Server.start: select has returned, socket s is readable and its frame is
\* read and handled
HandleReadable(s) ==
    \E p \in unread :
      LET st0 == [clients |-> clients, groups |-> groups, failing |-> failing,
                  out |-> <<>>, exc |-> FALSE]
          st == handle_client_message(st0, s, p.frame)
      IN
        /\ p.sock = s
        /\ event = Idle
        /\ unread' = { q \in unread :
                         q.sock # s /\ q.sock \in ClientSocks(st.clients) }
        /\ UNCHANGED accepted
        /\ Commit(st0, st, [op |-> "message", sock |-> s, frame |-> p.frame])

HandleClientMessage == \E s \in Sockets : HandleReadable(s)

\* ------------------------------------------- the datagram download
Unset == -1

NoChunks == [k \in {} |-> <<>>]

\* Client.receive_file_udp: expected_chunks as if rounded down
expected_chunks_floor(size) == size \div chunk_size

\* Client.receive_file_udp: expected_chunks = (size + 1023) // 1024
expected_chunks(size) == (size + (chunk_size - 1)) \div chunk_size

\* Client.receive_file_udp: data[8:8+chunk_len] of a datagram read with
\* recvfrom(8 + chunk size)
chunk_data(d) ==
    SubSeq(d.data, 1, Min(Min(d.chunk_len, Len(d.data)), chunk_size))

\* Client.receive_file_udp: the bytes written by the loop over
\* range(expected_chunks), from chunk number i on
RECURSIVE write_chunks(_, _, _)
write_chunks(chunks, i, n) ==
    IF i >= n THEN <<>>
    ELSE (IF i \in DOMAIN chunks THEN chunks[i] ELSE <<>>)
             \o write_chunks(chunks, i + 1, n)

UdpIdle ==
    /\ srv_pc = "idle"
    /\ chunk_num = 0
    /\ ctrl = <<>>
    /\ net = {}
    /\ sent = <<>>
    /\ udp_socket = FALSE
    /\ udp_pc = "none"
    /\ download_file_size = Unset
    /\ download_chunks = NoChunks
    /\ download_received = Unset
    /\ arrived = {}
    /\ repeated = {}
    /\ written = <<>>
    /\ report = "none"

\* Server.send_file_udp: the announce and the port, both on the stream
SendFileUdpAnnounce ==
    /\ srv_pc = "announce"
    /\ ctrl' = ctrl \o << [tag |-> "DOWNLOAD_START_UDP", size |-> Len(file)],
                          [tag |-> "UDP_PORT", size |-> Len(file)] >>
    /\ chunk_num' = 0
    /\ srv_pc' = "read"
    /\ UNCHANGED <<srv_vars, tcp_vars, loop_vars, snd_vars, sent, file, net, udp_socket, udp_pc, download_file_size,
                   download_chunks, download_received, arrived, repeated,
                   written, report>>

\* A send loop whose header always announces a full chunk
SendFileUdpChunk_fixed_len ==
    /\ srv_pc = "read"
    /\ LET chunk == read_chunk(file, chunk_num * chunk_size)
       IN IF chunk = <<>>
          THEN /\ srv_pc' = "complete"
               /\ UNCHANGED <<net, sent, chunk_num>>
          ELSE LET d == [chunk_num |-> chunk_num, chunk_len |-> chunk_size,
                         data |-> chunk]
               IN /\ net' = net \cup {d}
                  /\ sent' = Append(sent, d)
                  /\ chunk_num' = chunk_num + 1
                  /\ UNCHANGED srv_pc
    /\ UNCHANGED <<srv_vars, tcp_vars, loop_vars, snd_vars, file, ctrl, udp_socket, udp_pc, download_file_size,
                   download_chunks, download_received, arrived, repeated,
                   written, report>>

\* Server.send_file_udp: one round of the read loop, sendto included
SendFileUdpChunk ==
    /\ srv_pc = "read"
    /\ LET chunk == read_chunk(file, chunk_num * chunk_size)
       IN IF chunk = <<>>
          THEN /\ srv_pc' = "complete"
               /\ UNCHANGED <<net, sent, chunk_num>>
          ELSE LET d == [chunk_num |-> chunk_num, chunk_len |-> Len(chunk),
                         data |-> chunk]
               IN /\ net' = net \cup {d}
                  /\ sent' = Append(sent, d)
                  /\ chunk_num' = chunk_num + 1
                  /\ UNCHANGED srv_pc
    /\ UNCHANGED <<srv_vars, tcp_vars, loop_vars, snd_vars, file, ctrl, udp_socket, udp_pc, download_file_size,
                   download_chunks, download_received, arrived, repeated,
                   written, report>>

\* Server.send_file_udp: the completion frame
SendFileUdpComplete ==
    /\ srv_pc = "complete"
    /\ ctrl' = Append(ctrl, [tag |-> "DOWNLOAD_COMPLETE_UDP", size |-> Len(file)])
    /\ srv_pc' = "done"
    /\ UNCHANGED <<srv_vars, tcp_vars, loop_vars, snd_vars, sent, file, chunk_num, net, udp_socket, udp_pc, download_file_size,
                   download_chunks, download_received, arrived, repeated,
                   written, report>>

\* Server.handle_client_message: the client asks for the file over UDP once
\* more, having read the control frames of the transfer before, and
\* Server.handle_file_download calls send_file_udp again
SendFileUdpAgain ==
    /\ srv_pc = "done"
    /\ ctrl = <<>>
    /\ srv_pc' = "announce"
    /\ chunk_num' = 0
    /\ sent' = <<>>
    /\ UNCHANGED <<srv_vars, tcp_vars, loop_vars, snd_vars, file, ctrl, net, udp_socket, udp_pc, download_file_size,
                   download_chunks, download_received, arrived, repeated,
                   written, report>>

\* The network loses a datagram (also: it reaches a port nobody has bound)
NetDrop ==
    \E d \in net :
        /\ net' = net \ {d}
        /\ UNCHANGED <<srv_vars, tcp_vars, loop_vars, snd_vars, sent, file, srv_pc, chunk_num, ctrl, udp_socket, udp_pc,
                       download_file_size, download_chunks, download_received,
                       arrived, repeated, written, report>>

\* A datagram reaches the client's host while no socket is bound to the port:
\* the host discards it
PortUnreachable ==
    \E d \in net :
        /\ ~udp_socket
        /\ net' = net \ {d}
        /\ UNCHANGED <<srv_vars, tcp_vars, loop_vars, snd_vars, sent, file, srv_pc, chunk_num, ctrl, udp_socket, udp_pc,
                       download_file_size, download_chunks, download_received,
                       arrived, repeated, written, report>>

\* Client.receive_messages -> handle_download_start_udp
HandleDownloadStartUdp ==
    /\ ctrl # <<>>
    /\ Head(ctrl).tag = "DOWNLOAD_START_UDP"
    /\ ctrl' = Tail(ctrl)
    /\ download_file_size' = Head(ctrl).size
    /\ download_chunks' = NoChunks
    /\ download_received' = 0
    /\ UNCHANGED <<srv_vars, tcp_vars, loop_vars, snd_vars, sent, file, srv_pc, chunk_num, net, udp_socket, udp_pc, arrived,
                   repeated, written, report>>

\* Client.receive_messages -> handle_udp_port -> setup_udp_receiver.  While
\* an earlier receive thread still holds the port, bind raises: no thread is
\* started, and self.udp_socket is left naming the new socket, which is not
\* bound and has no timeout, so that the earlier thread's later recvfrom
\* calls wait on it
HandleUdpPort ==
    /\ ctrl # <<>>
    /\ Head(ctrl).tag = "UDP_PORT"
    /\ ctrl' = Tail(ctrl)
    /\ IF udp_pc \in {"none", "done"}
       THEN udp_socket' = TRUE /\ udp_pc' = "test"
       ELSE udp_socket' = FALSE /\ UNCHANGED udp_pc
    /\ UNCHANGED <<srv_vars, tcp_vars, loop_vars, snd_vars, sent, file, srv_pc, chunk_num, net, download_file_size,
                   download_chunks, download_received, arrived, repeated,
                   written, report>>

\* Client.receive_messages -> handle_download_complete_udp
HandleDownloadCompleteUdp ==
    /\ ctrl # <<>>
    /\ Head(ctrl).tag = "DOWNLOAD_COMPLETE_UDP"
    /\ ctrl' = Tail(ctrl)
    /\ UNCHANGED <<srv_vars, tcp_vars, loop_vars, snd_vars, sent, file, srv_pc, chunk_num, net, udp_socket, udp_pc,
                   download_file_size, download_chunks, download_received,
                   arrived, repeated, written, report>>

\* Client.receive_file_udp: the while condition
ReceiveFileUdpTest ==
    /\ udp_pc = "test"
    /\ udp_pc' = IF download_received < download_file_size THEN "recv" ELSE "write"
    /\ UNCHANGED <<srv_vars, tcp_vars, loop_vars, snd_vars, sent, file, srv_pc, chunk_num, ctrl, net, udp_socket,
                   download_file_size, download_chunks, download_received,
                   arrived, repeated, written, report>>

\* A receive path that stores and counts every datagram, seen before or not
ReceiveFileUdpDatagram_recount ==
    \E d \in net, again \in BOOLEAN :
        /\ udp_pc = "recv"
        /\ udp_socket
        /\ net' = IF again THEN net ELSE net \ {d}
        /\ arrived' = arrived \cup {d.chunk_num}
        /\ repeated' = IF d.chunk_num \in arrived
                       THEN repeated \cup {d.chunk_num} ELSE repeated
        /\ download_chunks' =
               [k \in DOMAIN download_chunks \cup {d.chunk_num} |->
                   IF k = d.chunk_num THEN chunk_data(d) ELSE download_chunks[k]]
        /\ download_received' = download_received + Len(chunk_data(d))
        /\ udp_pc' = "test"
        /\ UNCHANGED <<srv_vars, tcp_vars, loop_vars, snd_vars, sent, file, srv_pc, chunk_num, ctrl, udp_socket,
                       download_file_size, written, report>>

\* Client.receive_file_udp: recvfrom returns a datagram; the network may
\* deliver the same datagram again later (again)
ReceiveFileUdpDatagram ==
    \E d \in net, again \in BOOLEAN :
        /\ udp_pc = "recv"
        /\ udp_socket
        /\ net' = IF again THEN net ELSE net \ {d}
        /\ arrived' = arrived \cup {d.chunk_num}
        /\ repeated' = IF d.chunk_num \in arrived
                       THEN repeated \cup {d.chunk_num} ELSE repeated
        /\ IF d.chunk_num \notin DOMAIN download_chunks
           THEN /\ download_chunks' =
                       [k \in DOMAIN download_chunks \cup {d.chunk_num} |->
                           IF k = d.chunk_num THEN chunk_data(d)
                           ELSE download_chunks[k]]
                /\ download_received' = download_received + Len(chunk_data(d))
           ELSE UNCHANGED <<download_chunks, download_received>>
        /\ udp_pc' = "test"
        /\ UNCHANGED <<srv_vars, tcp_vars, loop_vars, snd_vars, sent, file, srv_pc, chunk_num, ctrl, udp_socket,
                       download_file_size, written, report>>

\* Client.receive_file_udp: recvfrom raises socket.timeout
ReceiveFileUdpTimeout ==
    /\ udp_pc = "recv"
    /\ udp_socket
    /\ udp_pc' = IF Cardinality(DOMAIN download_chunks)
                       >= expected_chunks(download_file_size)
                 THEN "write" ELSE "test"
    /\ UNCHANGED <<srv_vars, tcp_vars, loop_vars, snd_vars, sent, file, srv_pc, chunk_num, ctrl, net, udp_socket,
                   download_file_size, download_chunks, download_received,
                   arrived, repeated, written, report>>

\* Client.receive_file_udp: recvfrom raises something other than a timeout
\* (Client.cleanup has closed the socket under the thread) and the loop is
\* left
ReceiveFileUdpError ==
    /\ udp_pc = "recv"
    /\ udp_pc' = "write"
    /\ UNCHANGED <<srv_vars, tcp_vars, loop_vars, snd_vars, sent, file, srv_pc, chunk_num, ctrl, net, udp_socket,
                   download_file_size, download_chunks, download_received,
                   arrived, repeated, written, report>>

\* A receive path that reports success once it holds as many chunks as the
\* announced size, rounded down, calls for
ReceiveFileUdpWrite_bychunks ==
    /\ udp_pc = "write"
    /\ written' = write_chunks(download_chunks, 0,
                               expected_chunks(download_file_size))
    /\ report' = IF Cardinality(DOMAIN download_chunks)
                       >= expected_chunks_floor(download_file_size)
                 THEN "success" ELSE "incomplete"
    /\ udp_socket' = FALSE
    /\ udp_pc' = "done"
    /\ UNCHANGED <<srv_vars, tcp_vars, loop_vars, snd_vars, sent, file, srv_pc, chunk_num, ctrl, net, download_file_size,
                   download_chunks, download_received, arrived, repeated>>

\* Client.receive_file_udp: after the loop, the file is written in chunk
\* order, the outcome printed and the socket closed
ReceiveFileUdpWrite ==
    /\ udp_pc = "write"
    /\ written' = write_chunks(download_chunks, 0,
                               expected_chunks(download_file_size))
    /\ report' = IF download_received = download_file_size
                 THEN "success" ELSE "incomplete"
    /\ udp_socket' = FALSE
    /\ udp_pc' = "done"
    /\ UNCHANGED <<srv_vars, tcp_vars, loop_vars, snd_vars, sent, file, srv_pc, chunk_num, ctrl, net, download_file_size,
                   download_chunks, download_received, arrived, repeated>>

ReceiveFileUdp ==
    \/ ReceiveFileUdpTest
    \/ ReceiveFileUdpDatagram
    \/ ReceiveFileUdpTimeout
    \/ ReceiveFileUdpError
    \/ ReceiveFileUdpWrite

ReceiveMessages ==
    HandleDownloadStartUdp \/ HandleUdpPort \/ HandleDownloadCompleteUdp

SendFileUdp == SendFileUdpAnnounce \/ SendFileUdpChunk \/ SendFileUdpComplete

\* ------------------------------------------------- the framed stream
\* On the wire a text is a sequence of characters.  A letter, a digit or one of
\* a few punctuation marks is written as the one-character string; any other
\* character is named by its code point, "U+233" for U+00E9.
Digits == "0123456789"
Uppers == "ABCDEFGHIJKLMNOPQRSTUVWXYZ"
Lowers == "abcdefghijklmnopqrstuvwxyz"

IndexIn(alphabet, c) ==
    IF \E i \in 1..Len(alphabet) : SubSeq(alphabet, i, i) = c
    THEN CHOOSE i \in 1..Len(alphabet) : SubSeq(alphabet, i, i) = c
    ELSE 0

\* The characters of a string
chars(s) == [i \in 1..Len(s) |-> SubSeq(s, i, i)]

\* The words of a message joined by single spaces, as characters
RECURSIVE str(_)
str(message) ==
    IF message = <<>> THEN <<>>
    ELSE IF Len(message) = 1 THEN chars(message[1])
    ELSE chars(message[1]) \o <<" ">> \o str(Tail(message))

\* int() of a string of decimal digits
RECURSIVE int(_)
int(cs) ==
    IF cs = <<>> THEN 0
    ELSE 10 * int(SubSeq(cs, 1, Len(cs) - 1)) + (IndexIn(Digits, cs[Len(cs)]) - 1)

\* int() raises ValueError on anything else
is_number(cs) == cs # <<>> /\ \A i \in DOMAIN cs : IndexIn(Digits, cs[i]) > 0

\* The code point of a character
ord(c) ==
    CASE c = " " -> 32
      [] c = "." -> 46
      [] c = "/" -> 47
      [] c = ":" -> 58
      [] c = "_" -> 95
      [] IndexIn(Digits, c) > 0 -> 47 + IndexIn(Digits, c)
      [] IndexIn(Uppers, c) > 0 -> 64 + IndexIn(Uppers, c)
      [] IndexIn(Lowers, c) > 0 -> 96 + IndexIn(Lowers, c)
      [] OTHER -> int(SubSeq(chars(c), 3, Len(c)))

\* The character of a code point
chr(n) ==
    CASE n = 32 -> " "
      [] n = 46 -> "."
      [] n = 47 -> "/"
      [] n = 58 -> ":"
      [] n = 95 -> "_"
      [] n \in 48..57 -> SubSeq(Digits, n - 47, n - 47)
      [] n \in 65..90 -> SubSeq(Uppers, n - 64, n - 64)
      [] n \in 97..122 -> SubSeq(Lowers, n - 96, n - 96)
      [] OTHER -> "U+" \o ToString(n)

\* str.encode('utf-8') of one character of the basic plane
encode_char(c) ==
    LET n == ord(c)
    IN IF n < 128 THEN <<n>>
       ELSE IF n < 2048 THEN <<192 + (n \div 64), 128 + (n % 64)>>
       ELSE <<224 + (n \div 4096), 128 + ((n \div 64) % 64), 128 + (n % 64)>>

\* str.encode('utf-8')
RECURSIVE encode(_)
encode(text) ==
    IF text = <<>> THEN <<>> ELSE encode_char(Head(text)) \o encode(Tail(text))

IsContinuation(b) == b \in 128..191

\* bytes.decode('utf-8') for the basic plane: the text, or ok = FALSE where
\* decode raises UnicodeDecodeError (a stray or missing continuation byte, an
\* overlong form, a surrogate)
RECURSIVE decode(_)
decode(b) ==
    IF b = <<>> THEN [ok |-> TRUE, text |-> <<>>]
    ELSE LET b1 == b[1]
             n == IF b1 < 128 THEN 1
                  ELSE IF b1 \in 194..223 THEN 2
                  ELSE IF b1 \in 224..239 THEN 3
                  ELSE 0
             valid == /\ n > 0
                      /\ Len(b) >= n
                      /\ \A i \in 2..n : IsContinuation(b[i])
                      /\ (n = 3 /\ b1 = 224) => b[2] >= 160
                      /\ (n = 3 /\ b1 = 237) => b[2] < 160
             cp == IF n = 1 THEN b1
                   ELSE IF n = 2 THEN (b1 - 192) * 64 + (b[2] - 128)
                   ELSE (b1 - 224) * 4096 + (b[2] - 128) * 64 + (b[3] - 128)
             rest == decode(SubSeq(b, n + 1, Len(b)))
         IN IF ~valid THEN [ok |-> FALSE, text |-> <<>>]
            ELSE IF ~rest.ok THEN rest
            ELSE [ok |-> TRUE, text |-> <<chr(cp)>> \o rest.text]

\* struct.pack('!I', n)
pack(n) ==
    << (n \div 16777216) % 256, (n \div 65536) % 256, (n \div 256) % 256, n % 256 >>

\* struct.unpack('!I', length_data)[0]
unpack(b) == ((b[1] * 256 + b[2]) * 256 + b[3]) * 256 + b[4]

\* A send_message whose length prefix counts characters
frame_bytes_chars(text) == pack(Len(text)) \o encode(text)

\* Server.send_message: the bytes the two sendall calls put on the stream
frame_bytes(text) == pack(Len(encode(text))) \o encode(text)

\* The bytes on the stream of one write logged by the server
wire(d) ==
    IF d.msg[1] = "<block>" THEN pack(Len(d.data)) \o d.data
    ELSE frame_bytes(str(d.msg))

RECURSIVE wire_all(_)
wire_all(out) ==
    IF out = <<>> THEN <<>> ELSE wire(Head(out)) \o wire_all(Tail(out))

\* str.split(':')
RECURSIVE split(_, _)
split(text, sep) ==
    IF ~InList(text, sep) THEN << text >>
    ELSE LET k == CHOOSE i \in DOMAIN text :
                     text[i] = sep /\ \A j \in 1..(i-1) : text[j] # sep
         IN << SubSeq(text, 1, k - 1) >> \o split(SubSeq(text, k + 1, Len(text)), sep)

\* str.startswith on texts
starts(text, prefix) ==
    Len(text) >= Len(prefix) /\ SubSeq(text, 1, Len(prefix)) = chars(prefix)

\* What receive_message returns: a text, or None
None == [ok |-> FALSE, text |-> <<>>]

Some(text) == [ok |-> TRUE, text |-> text]

NoRequest == [kind |-> "none", text |-> <<>>, frame |-> <<>>]

\* socket.recv can return: there is data, or the stream has ended
CanRecv == buf # <<>> \/ (closed /\ stream = <<>>)

\* socket.recv(n): what has arrived, n bytes at most
recv(n) == SubSeq(buf, 1, Min(n, Len(buf)))

after_recv(n) == SubSeq(buf, Min(n, Len(buf)) + 1, Len(buf))

Notice(kind, text, size) == [kind |-> kind, text |-> text, size |-> size]

\* Texts handed to send_message, and shared files whose bytes all differ
Texts == { <<>>, chars("hi"), <<"U+233">>, <<"a", "U+8364", "b">> }

TcpFiles == { [i \in 1..n |-> i] : n \in 0..MaxFileLen }

TcpIdle ==
    /\ request = NoRequest
    /\ wrote = <<>>
    /\ stream = <<>>
    /\ buf = <<>>
    /\ closed = FALSE
    /\ cl_pc = "select"
    /\ length_data = <<>>
    /\ message_len = 0
    /\ message_buf = <<>>
    /\ whole = FALSE
    /\ returned = <<>>
    /\ download_size = 0
    /\ received = 0
    /\ chunk_len = 0
    /\ chunk_buf = <<>>
    /\ saved = <<>>
    /\ printed = <<>>

\* The client's receive locals and what it has produced
cl_vars == <<cl_pc, length_data, message_len, message_buf, whole, returned,
             download_size, received, chunk_len, chunk_buf, saved, printed>>

\* Server.handle_client_message for a /DOWNLOAD of the shared file in reliable
\* mode: everything the handler writes goes onto the stream before it returns
ServeDownload ==
    \E m \in { <<"/DOWNLOAD", "f">>, <<"/download", "f", "tcp">> } :
      LET s == clients[1].sock
          st0 == [clients |-> clients, groups |-> groups, failing |-> failing,
                  out |-> <<>>, exc |-> FALSE]
          st == handle_client_message(st0, s, m)
      IN
        /\ request = NoRequest
        /\ ~closed
        /\ request' = [kind |-> "download", text |-> <<>>, frame |-> m]
        /\ clients' = st.clients
        /\ groups' = st.groups
        /\ failing' = st.failing \cap ClientSocks(st.clients)
        /\ delivered' = st.out
        /\ before' = [clients |-> clients, groups |-> groups, failing |-> failing]
        /\ event' = [op |-> "message", sock |-> s, frame |-> m]
        /\ running
        /\ running' = ~st.exc
        /\ wrote' = wrote \o wire_all(st.out)
        /\ stream' = stream \o wire_all(st.out)
        /\ UNCHANGED <<accepted, unread, snd_vars, udp_vars, buf, closed, cl_vars>>

\* Server.send_message with some text for the client, from whatever handler
ServerSendMessage ==
    \E text \in Texts :
        /\ request = NoRequest
        /\ ~closed
        /\ request' = [kind |-> "text", text |-> text, frame |-> <<>>]
        /\ wrote' = wrote \o frame_bytes(text)
        /\ stream' = stream \o frame_bytes(text)
        /\ UNCHANGED <<srv_vars, loop_vars, snd_vars, udp_vars, buf, closed, cl_vars>>

\* The network hands the next bytes of the stream to the client's socket, in
\* pieces of any size
Deliver ==
    \E k \in 1..Len(stream) :
        /\ buf' = buf \o SubSeq(stream, 1, k)
        /\ stream' = SubSeq(stream, k + 1, Len(stream))
        /\ UNCHANGED <<srv_vars, loop_vars, snd_vars, udp_vars, request, wrote, closed, cl_vars>>

\* The server's end of the stream goes away; what was in flight is lost
Cut ==
    /\ ~closed
    /\ closed' = TRUE
    /\ stream' = <<>>
    /\ UNCHANGED <<srv_vars, loop_vars, snd_vars, udp_vars, request, wrote, buf, cl_vars>>

\* Client.receive_messages finds the socket readable and calls
\* receive_message, which reads the length with one recv(4)
ReceiveMessageLen ==
    /\ cl_pc = "select"
    /\ CanRecv
    /\ buf' = after_recv(4)
    /\ length_data' = recv(4)
    /\ whole' = (request # NoRequest /\ buf = wrote)
    /\ IF Len(recv(4)) < 4
       THEN /\ returned' = Append(returned, None)
            /\ cl_pc' = "dispatch"
            /\ UNCHANGED <<message_len, message_buf>>
       ELSE /\ message_len' = unpack(recv(4))
            /\ message_buf' = <<>>
            /\ cl_pc' = "body"
            /\ UNCHANGED returned
    /\ UNCHANGED <<srv_vars, loop_vars, snd_vars, udp_vars, request, wrote, stream, closed, printed,
                   download_size, received, chunk_len, chunk_buf, saved>>

\* Client.receive_message: the loop that reads the payload
ReceiveMessageBody ==
    /\ cl_pc = "body"
    /\ IF Len(message_buf) < message_len
       THEN /\ CanRecv
            /\ buf' = after_recv(message_len - Len(message_buf))
            /\ IF recv(message_len - Len(message_buf)) = <<>>
               THEN /\ returned' = Append(returned, None)
                    /\ cl_pc' = "dispatch"
                    /\ UNCHANGED message_buf
               ELSE /\ message_buf' = message_buf \o recv(message_len - Len(message_buf))
                    /\ UNCHANGED <<returned, cl_pc>>
       ELSE /\ returned' = Append(returned, decode(message_buf))
            /\ cl_pc' = "dispatch"
            /\ UNCHANGED <<buf, message_buf>>
    /\ UNCHANGED <<srv_vars, loop_vars, snd_vars, udp_vars, request, wrote, stream, closed, printed,
                   length_data, message_len, whole, download_size, received,
                   chunk_len, chunk_buf, saved>>

\* Client.receive_messages: what it does with the value receive_message
\* returned.  The three control frames of a datagram download are left to
\* the datagram session.
ReceiveMessagesDispatch ==
    LET got == returned[Len(returned)]
        parts == split(got.text, ":")
    IN
    /\ cl_pc = "dispatch"
    /\ IF ~got.ok \/ got.text = <<>>
       THEN /\ printed' = Append(printed, Notice("lost", <<>>, 0))
            /\ cl_pc' = "stopped"
            /\ UNCHANGED <<download_size, received, saved>>
       ELSE IF starts(got.text, "DOWNLOAD_START:")
       THEN IF Len(parts) >= 3
            THEN IF is_number(parts[3])
                 THEN /\ download_size' = int(parts[3])
                      /\ received' = 0
                      /\ saved' = <<>>
                      /\ cl_pc' = "file"
                      /\ UNCHANGED printed
                 ELSE /\ printed' = Append(printed, Notice("error", <<>>, 0))
                      /\ cl_pc' = "stopped"
                      /\ UNCHANGED <<download_size, received, saved>>
            ELSE /\ cl_pc' = "select"
                 /\ UNCHANGED <<download_size, received, saved, printed>>
       ELSE IF \/ starts(got.text, "DOWNLOAD_START_UDP:")
               \/ starts(got.text, "UDP_PORT:")
       THEN /\ cl_pc' = "select"
            /\ UNCHANGED <<download_size, received, saved, printed>>
       ELSE IF starts(got.text, "DOWNLOAD_COMPLETE:")
       THEN IF Len(parts) >= 3
            THEN IF is_number(parts[3])
                 THEN /\ printed' = Append(printed,
                                       Notice("complete", parts[2], int(parts[3])))
                      /\ cl_pc' = "select"
                      /\ UNCHANGED <<download_size, received, saved>>
                 ELSE /\ printed' = Append(printed, Notice("error", <<>>, 0))
                      /\ cl_pc' = "stopped"
                      /\ UNCHANGED <<download_size, received, saved>>
            ELSE /\ cl_pc' = "select"
                 /\ UNCHANGED <<download_size, received, saved, printed>>
       ELSE IF starts(got.text, "DOWNLOAD_COMPLETE_UDP:")
       THEN /\ cl_pc' = "select"
            /\ UNCHANGED <<download_size, received, saved, printed>>
       ELSE /\ printed' = Append(printed, Notice("message_buf", got.text, 0))
            /\ cl_pc' = "select"
            /\ UNCHANGED <<download_size, received, saved>>
    /\ UNCHANGED <<srv_vars, loop_vars, snd_vars, udp_vars, request, wrote, stream, buf, closed,
                   length_data, message_len, message_buf, whole, returned,
                   chunk_len, chunk_buf>>

\* Client.receive_file_tcp: the while condition, and after the loop the
\* outcome that is printed
ReceiveFileTcpTest ==
    /\ cl_pc = "file"
    /\ IF received < download_size
       THEN /\ cl_pc' = "file_len"
            /\ UNCHANGED printed
       ELSE /\ printed' = Append(printed,
                              Notice(IF received = download_size
                                     THEN "downloaded" ELSE "incomplete",
                                     <<>>, received))
            /\ cl_pc' = "select"
    /\ UNCHANGED <<srv_vars, loop_vars, snd_vars, udp_vars, request, wrote, stream, buf, closed,
                   length_data, message_len, message_buf, whole, returned,
                   download_size, received, chunk_len, chunk_buf, saved>>

\* Client.receive_file_tcp: the block length is read with one recv(4); fewer
\* than four bytes leave the loop
ReceiveFileTcpLen ==
    /\ cl_pc = "file_len"
    /\ CanRecv
    /\ buf' = after_recv(4)
    /\ length_data' = recv(4)
    /\ IF Len(recv(4)) < 4
       THEN /\ printed' = Append(printed, Notice("incomplete", <<>>, received))
            /\ cl_pc' = "select"
            /\ UNCHANGED <<chunk_len, chunk_buf>>
       ELSE /\ chunk_len' = unpack(recv(4))
            /\ chunk_buf' = <<>>
            /\ cl_pc' = "file_body"
            /\ UNCHANGED printed
    /\ UNCHANGED <<srv_vars, loop_vars, snd_vars, udp_vars, request, wrote, stream, closed,
                   message_len, message_buf, whole, returned, download_size, received,
                   saved>>

\* Client.receive_file_tcp: the loop that reads the block, then f.write
ReceiveFileTcpBody ==
    /\ cl_pc = "file_body"
    /\ IF Len(chunk_buf) < chunk_len /\ ~(CanRecv /\ buf = <<>>)
       THEN /\ CanRecv
            /\ buf' = after_recv(chunk_len - Len(chunk_buf))
            /\ chunk_buf' = chunk_buf \o recv(chunk_len - Len(chunk_buf))
            /\ UNCHANGED <<saved, received, cl_pc>>
       ELSE /\ saved' = saved \o chunk_buf
            /\ received' = received + Len(chunk_buf)
            /\ cl_pc' = "file"
            /\ UNCHANGED <<buf, chunk_buf>>
    /\ UNCHANGED <<srv_vars, loop_vars, snd_vars, udp_vars, request, wrote, stream, closed,
                   length_data, message_len, message_buf, whole, returned,
                   download_size, chunk_len, printed>>

ReceiveMessage == ReceiveMessageLen \/ ReceiveMessageBody

ReceiveFileTcp == ReceiveFileTcpTest \/ ReceiveFileTcpLen \/ ReceiveFileTcpBody

\* ------------------------------------- the client's two writing threads
\* Client.run starts the thread of handle_input and then sleeps in the main
\* thread; on KeyboardInterrupt the main thread itself sends /LEAVE.  Both
\* write to the one socket through send_message, which holds no lock and
\* makes two sendall calls.
\* Lines the user types before the interrupt
MaxLines == 2

SendIdle ==
    /\ up = <<>>
    /\ input_pc = "while"
    /\ input_text = <<>>
    /\ main_pc = "sleep"
    /\ client_running = TRUE

\* Client.handle_input: the test of `while self.running`, then the thread
\* blocks in readline
HandleInputWhile ==
    /\ input_pc = "while"
    /\ input_pc' = IF client_running THEN "readline" ELSE "stopped"
    /\ UNCHANGED <<srv_vars, udp_vars, tcp_vars, loop_vars, up, input_text,
                   main_pc, client_running>>

\* Client.handle_input: a line is read and send_message makes its first
\* sendall, the length prefix; on a closed socket sendall raises and
\* send_message clears running.  `up` holds one record for each sendall made on
\* the socket; the lines typed are already stripped
HandleInputPrefix ==
    \E line \in { <<"hi">>, <<"/QUIT">> } :
      LET \* user_input.upper() == '/QUIT' or user_input.upper() == '/EXIT'
          IsQuit == Len(line) = 1 /\ upper(line[1]) \in {"/QUIT", "/EXIT"}
          message == IF IsQuit THEN chars("/LEAVE") ELSE str(line)
          LinesSent == Cardinality({ i \in DOMAIN up :
                           up[i].by = "input" /\ up[i].part = "prefix" })
      IN
        /\ input_pc = "readline"
        /\ LinesSent < MaxLines
        /\ IF main_pc = "exited"
           THEN /\ client_running' = FALSE
                /\ input_pc' = IF IsQuit THEN "stopped" ELSE "while"
                /\ UNCHANGED <<up, input_text>>
           ELSE /\ up' = Append(up, [by |-> "input", part |-> "prefix",
                                      bytes |-> pack(Len(encode(message)))])
                /\ input_text' = message
                /\ input_pc' = IF IsQuit THEN "payload_quit" ELSE "payload"
                /\ UNCHANGED client_running
        /\ UNCHANGED <<srv_vars, udp_vars, tcp_vars, loop_vars, main_pc>>

\* Client.handle_input: the second sendall of send_message, the payload; after
\* /QUIT the thread clears running and leaves its loop
HandleInputPayload ==
    /\ input_pc \in {"payload", "payload_quit"}
    /\ IF main_pc = "exited"
       THEN /\ client_running' = FALSE
            /\ UNCHANGED up
       ELSE /\ up' = Append(up, [by |-> "input", part |-> "payload",
                                  bytes |-> encode(input_text)])
            /\ client_running' = IF input_pc = "payload_quit" THEN FALSE
                                 ELSE client_running
    /\ input_pc' = IF input_pc = "payload_quit" THEN "stopped" ELSE "while"
    /\ UNCHANGED <<srv_vars, udp_vars, tcp_vars, loop_vars, input_text, main_pc>>

\* Client.run: KeyboardInterrupt in the main thread; send_message('/LEAVE')
\* makes its first sendall
RunInterruptPrefix ==
    /\ main_pc = "sleep"
    /\ up' = Append(up, [by |-> "main", part |-> "prefix",
                          bytes |-> pack(Len(encode(chars("/LEAVE"))))])
    /\ main_pc' = "payload"
    /\ UNCHANGED <<srv_vars, udp_vars, tcp_vars, loop_vars, input_pc, input_text,
                   client_running>>

\* Client.run: the second sendall of that send_message, then running = False
RunInterruptPayload ==
    /\ main_pc = "payload"
    /\ up' = Append(up, [by |-> "main", part |-> "payload",
                          bytes |-> encode(chars("/LEAVE"))])
    /\ client_running' = FALSE
    /\ main_pc' = "cleanup"
    /\ UNCHANGED <<srv_vars, udp_vars, tcp_vars, loop_vars, input_pc, input_text>>

\* Client.run: the finally clause, Client.cleanup closes the socket; also
\* reached when the loop ends because running was cleared
RunCleanup ==
    /\ \/ main_pc = "cleanup"
       \/ main_pc = "sleep" /\ ~client_running
    /\ main_pc' = "exited"
    /\ client_running' = FALSE
    /\ UNCHANGED <<srv_vars, udp_vars, tcp_vars, loop_vars, up, input_pc, input_text>>

\* ------------------------------------------------------ specifications
Files == UNION { [1..n -> Bytes] : n \in 0..MaxFileLen }

\* The relay: connections, routing and groups
Init == ServerInit /\ file = <<1, 0, 1>> /\ UdpIdle /\ TcpIdle /\ LoopIdle /\ SendIdle

Next == ServerNext

Spec == Init /\ [][Next]_vars

\* One datagram download of a shared file by a connected client, from the
\* moment Server.handle_file_download calls send_file_udp
UdpInit ==
    /\ ServerInit
    /\ file \in Files
    /\ srv_pc = "announce"
    /\ chunk_num = 0
    /\ ctrl = <<>>
    /\ net = {}
    /\ sent = <<>>
    /\ udp_socket = FALSE
    /\ udp_pc = "none"
    /\ download_file_size = Unset
    /\ download_chunks = NoChunks
    /\ download_received = Unset
    /\ arrived = {}
    /\ repeated = {}
    /\ written = <<>>
    /\ report = "none"
    /\ TcpIdle
    /\ LoopIdle
    /\ SendIdle

UdpNext == SendFileUdp \/ NetDrop \/ ReceiveMessages \/ ReceiveFileUdp

\* Every thread that can take a step eventually takes one: the server's
\* handler, the client's receive_messages thread and its receive_file_udp
\* thread.  Nothing obliges the network to deliver a datagram.
UdpSpec ==
    /\ UdpInit
    /\ [][UdpNext]_vars
    /\ WF_vars(SendFileUdp)
    /\ WF_vars(ReceiveMessages)
    /\ WF_vars(ReceiveFileUdpTest \/ ReceiveFileUdpTimeout \/ ReceiveFileUdpWrite)

\* The same download over a network that loses no datagram addressed to a
\* bound socket: a datagram is discarded only when it finds the port unbound
LosslessNext ==
    SendFileUdp \/ PortUnreachable \/ ReceiveMessages \/ ReceiveFileUdp

LosslessSpec == UdpInit /\ [][LosslessNext]_vars

\* Datagram downloads of one file by the same client, one after another
RepeatInit == UdpInit /\ file = <<1, 0, 1>>

RepeatNext ==
    SendFileUdp \/ SendFileUdpAgain \/ NetDrop \/ ReceiveMessages \/ ReceiveFileUdp

RepeatSpec == RepeatInit /\ [][RepeatNext]_vars

\* One exchange on the stream from the server to a registered client: the
\* server writes a text frame or serves a reliable download, the network
\* delivers the bytes in pieces, and the client's receive thread reads them
TcpInit ==
    /\ accepted = 1
    /\ clients = << [sock |-> 1, username |-> <<"alice">>] >>
    /\ groups = <<>>
    /\ failing = {}
    /\ event = Idle
    /\ before = NoBefore
    /\ delivered = <<>>
    /\ file \in TcpFiles
    /\ UdpIdle
    /\ TcpIdle
    /\ LoopIdle
    /\ SendIdle

TcpNext ==
    \/ ServeDownload
    \/ ServerSendMessage
    \/ Deliver
    \/ Cut
    \/ ReceiveMessage
    \/ ReceiveMessagesDispatch
    \/ ReceiveFileTcp

TcpSpec == TcpInit /\ [][TcpNext]_vars

\* The loop with peers that write when they like.  The server's own steps are
\* fair: a handler that has returned is followed by the next round, and every
\* round handles every socket select reports readable (server.py:45-51).
\* Nothing obliges a peer to write.
LoopNext ==
    \/ AcceptClientWelcome
    \/ AcceptClientUsername
    \/ PeerSends
    \/ HandleClientMessage
    \/ NextReady

LoopSpec ==
    /\ Init
    /\ [][LoopNext]_vars
    /\ WF_vars(NextReady)
    /\ \A s \in Sockets : SF_vars(HandleReadable(s))


\* The client's writers: the input thread and the interrupted main thread
SendNext ==
    \/ HandleInputWhile \/ HandleInputPrefix \/ HandleInputPayload
    \/ RunInterruptPrefix \/ RunInterruptPayload \/ RunCleanup

SendSpec == Init /\ [][SendNext]_vars

\* ------------------------------------------------------------ properties
\* How often frame m was written to socket s while the event was processed
Count(s, m) ==
    Cardinality({ i \in DOMAIN delivered :
                    delivered[i].to = s /\ delivered[i].msg = m })

\* The frames written to socket s while the event was processed, in order
Received(s) == SelectSeq(delivered, LAMBDA d : d.to = s)

\* The event is a frame of at least n words whose keyword is cmd
IsCommand(cmd, n) ==
    /\ event.op = "message"
    /\ event.frame # NoMsg
    /\ Len(event.frame) >= n
    /\ upper(event.frame[1]) = cmd

Keywords ==
    { "/LEAVE", "/BROADCAST", "/UNICAST", "/JOINGROUP", "/LEAVEGROUP", "/GROUP",
      "/LISTFILES", "/DOWNLOAD", "/LISTUSERS", "/LISTGROUPS" }

SenderName == username_of(before.clients, event.sock)

Was(s) == s \in ClientSocks(before.clients)

Is(s) == s \in ClientSocks(clients)

MembersBefore(g) ==
    IF has_group(before.groups, g)
    THEN { members_of(before.groups, g)[i] : i \in DOMAIN members_of(before.groups, g) }
    ELSE {}

\* C1: the group directory never holds a group with zero members, whatever
\* joins, leaves, disconnects and failed sends have happened.
C1_NoEmptyGroup == \A i \in DOMAIN groups : groups[i].members # <<>>

\* C2: when S sends /BROADCAST T and every send succeeds, every other
\* registered connection receives exactly one frame, "[BROADCAST] <S>: T" with
\* the whole text T, and S receives nothing.
C2_BroadcastWholeText ==
    (IsCommand("/BROADCAST", 2) /\ before.failing = {}) =>
        LET m == <<"[BROADCAST]">> \o SenderName \o <<":">> \o Tail(event.frame)
        IN \A s \in ClientSocks(before.clients) :
               IF s = event.sock THEN Received(s) = <<>>
               ELSE Received(s) = << [to |-> s, msg |-> m] >>

\* C3: for /UNICAST u text the frame "[UNICAST] <S>: text" is written to at most
\* one connection, that connection is registered as u, and the text is the whole
\* remainder of the frame after the username.
C3_UnicastOnlyToNamed ==
    IsCommand("/UNICAST", 3) =>
        LET m == <<"[UNICAST]">> \o SenderName \o <<":">>
                     \o SubSeq(event.frame, 3, Len(event.frame))
            hits == { i \in DOMAIN delivered : delivered[i].msg[1] = "[UNICAST]" }
        IN /\ Cardinality(hits) <= 1
           /\ \A i \in hits :
                  /\ delivered[i].msg = m
                  /\ Was(delivered[i].to)
                  /\ username_of(before.clients, delivered[i].to) = <<event.frame[2]>>

C3_Witness ==
    /\ IsCommand("/UNICAST", 4)
    /\ Len(before.clients) = 3
    /\ \E i \in DOMAIN delivered :
           /\ delivered[i].msg[1] = "[UNICAST]"
           /\ \E s \in ClientSocks(before.clients) \ {event.sock, delivered[i].to} :
                  username_of(before.clients, s) # <<event.frame[2]>>

\* C4 as stated: with every send succeeding, /UNICAST u text is delivered to a
\* connection registered as u whenever one exists (S included) and S gets no
\* "not found"; otherwise nothing is delivered and S gets "User 'u' not found";
\* registry and groups stay as they were.
C4_UnicastAnyNamed ==
    (IsCommand("/UNICAST", 3) /\ before.failing = {}) =>
        LET u == <<event.frame[2]>>
            m == <<"[UNICAST]">> \o SenderName \o <<":">>
                     \o SubSeq(event.frame, 3, Len(event.frame))
            nf == <<"User '">> \o u \o <<"' not found">>
            named == { s \in ClientSocks(before.clients) :
                         username_of(before.clients, s) = u }
        IN /\ named # {} =>
                 /\ \E s \in named : Count(s, m) = 1
                 /\ Count(event.sock, nf) = 0
           /\ named = {} => delivered = << [to |-> event.sock, msg |-> nf] >>
           /\ clients = before.clients
           /\ groups = before.groups

\* C4 amended: the connections considered are those other than S's own.  With
\* every send succeeding, if another connection is registered as u the frame
\* is delivered to one of them and nothing else is sent; if none is, S gets
\* "User 'u' not found" and nothing else is sent; registry and groups stay.
C4_UnicastOtherNamed ==
    (IsCommand("/UNICAST", 3) /\ before.failing = {}) =>
        LET u == <<event.frame[2]>>
            m == <<"[UNICAST]">> \o SenderName \o <<":">>
                     \o SubSeq(event.frame, 3, Len(event.frame))
            nf == <<"User '">> \o u \o <<"' not found">>
            named == { s \in ClientSocks(before.clients) \ {event.sock} :
                         username_of(before.clients, s) = u }
        IN /\ named # {} =>
                 \E s \in named : delivered = << [to |-> s, msg |-> m] >>
           /\ named = {} => delivered = << [to |-> event.sock, msg |-> nf] >>
           /\ clients = before.clients
           /\ groups = before.groups

\* S names itself and is told it was not found
C4_Witness ==
    /\ IsCommand("/UNICAST", 3)
    /\ before.failing = {}
    /\ SenderName = <<event.frame[2]>>
    /\ \E i \in DOMAIN delivered :
           delivered[i].to = event.sock /\ delivered[i].msg[1] = "User '"

\* C5: for /GROUP g text, if g exists every member of g other than S (whose
\* socket can be written) receives "[GROUP:g] <S>: text" exactly once and no
\* connection outside g receives it; if g does not exist nothing is delivered
\* but "Group 'g' does not exist" to S.
C5_GroupDelivery ==
    IsCommand("/GROUP", 3) =>
        LET g == <<event.frame[2]>>
            m == <<"[GROUP:">> \o g \o <<"]">> \o SenderName \o <<":">>
                     \o SubSeq(event.frame, 3, Len(event.frame))
        IN IF has_group(before.groups, g)
           THEN /\ \A s \in MembersBefore(g) \ {event.sock} :
                       s \notin before.failing => Count(s, m) = 1
                /\ \A s \in Sockets \ MembersBefore(g) : Count(s, m) = 0
           ELSE event.sock \notin before.failing =>
                    delivered = << [to |-> event.sock,
                                    msg |-> <<"Group '">> \o g \o <<"' does not exist">>] >>

\* C6: every member of every group is a registered connection; a removed
\* connection is in no group.
C6_MembersRegistered ==
    \A i \in DOMAIN groups : \A k \in DOMAIN groups[i].members :
        Is(groups[i].members[k])

\* a group member has just been removed, by /LEAVE, end of stream or a failed send
C6_Witness ==
    /\ event.op \in {"message", "exceptional"}
    /\ \E s \in ClientSocks(before.clients) :
           /\ ~Is(s)
           /\ \E g \in GroupNames : s \in MembersBefore(g)
    /\ \E s \in ClientSocks(before.clients) \ {event.sock} : ~Is(s)

\* The frame the router hands to broadcast_message for the event, if any
IsBroadcast ==
    \/ IsCommand("/BROADCAST", 2)
    \/ /\ event.op = "message"
       /\ event.frame # NoMsg
       /\ Len(event.frame) >= 1
       /\ upper(event.frame[1]) \notin Keywords

BroadcastFrame ==
    IF upper(event.frame[1]) = "/BROADCAST"
    THEN <<"[BROADCAST]">> \o SenderName \o <<":", event.frame[2]>>
    ELSE SenderName \o <<":">> \o event.frame

\* C7: in a broadcast a recipient whose send fails is removed, every other
\* recipient still receives the broadcast exactly once, and no connection
\* whose sends succeed is removed.
C7_BroadcastSurvivesFailure ==
    IsBroadcast =>
        \A r \in ClientSocks(before.clients) :
            /\ (r \in before.failing /\ r # event.sock) => ~Is(r)
            /\ (r \notin before.failing /\ r # event.sock) =>
                   Count(r, BroadcastFrame) = 1
            /\ r \notin before.failing => Is(r)

\* a recipient ahead of a healthy one in the registry failed
C7_Witness ==
    /\ IsBroadcast
    /\ \E i, j \in DOMAIN before.clients :
           /\ i < j
           /\ before.clients[i].sock \in before.failing \ {event.sock}
           /\ before.clients[j].sock \notin before.failing \cup {event.sock}
           /\ Count(before.clients[j].sock, BroadcastFrame) = 1

\* C8: in a /GROUP delivery in which the send to some member fails, every
\* other member apart from the sender still receives the group frame, and
\* only connections whose send fails are removed.
C8_GroupSurvivesFailure ==
    (/\ IsCommand("/GROUP", 3)
     /\ MembersBefore(<<event.frame[2]>>) \cap before.failing # {}) =>
        LET g == <<event.frame[2]>>
            m == <<"[GROUP:">> \o g \o <<"]">> \o SenderName \o <<":">>
                     \o SubSeq(event.frame, 3, Len(event.frame))
        IN /\ \A r \in MembersBefore(g) \ (before.failing \cup {event.sock}) :
                  Count(r, m) >= 1
           /\ \A r \in ClientSocks(before.clients) \ before.failing : Is(r)

\* The chunk numbers Server.send_file_udp sends for the file
AllChunks == { k \in 0..Len(file) : k * chunk_size < Len(file) }

\* C9: every datagram receive session eventually ends, whether all chunks
\* arrive or some are lost.
C9_SessionEnds == (udp_pc # "none") ~> (udp_pc = "done")

\* C10: once every chunk number has been handed to the receive path exactly
\* once, in whatever order, the loop is over (it does not wait for another
\* datagram), and when the session has ended the file written equals the
\* source file and success is reported.
C10_ReassemblyComplete ==
    (udp_pc # "none" /\ arrived = AllChunks /\ repeated = {}) =>
        /\ download_received = Len(file)
        /\ udp_pc # "recv"
        /\ udp_pc = "done" => (written = file /\ report = "success")

\* three chunks, the last one short, each delivered once and not in order
C10_Witness ==
    /\ udp_pc = "done"
    /\ Cardinality(AllChunks) = 3
    /\ Len(file) % chunk_size # 0
    /\ arrived = AllChunks
    /\ repeated = {}
    /\ written = file

\* The chunk of the source file that carries chunk number k
SourceChunk(k) == read_chunk(file, k * chunk_size)

RECURSIVE SumLen(_)
SumLen(ks) ==
    IF ks = {} THEN 0
    ELSE LET k == CHOOSE x \in ks : TRUE
         IN Len(SourceChunk(k)) + SumLen(ks \ {k})

\* C11: the stored chunk map and the received-byte counter depend only on
\* which chunk numbers have been handed to the receive path, not on how often:
\* a datagram whose chunk number was seen before changes neither, and the
\* file written at the end is the one a single delivery of each would give.
C11_ReassemblyIdempotent ==
    udp_pc # "none" =>
        /\ DOMAIN download_chunks = arrived
        /\ \A k \in arrived : download_chunks[k] = SourceChunk(k)
        /\ download_received = SumLen(arrived)
        /\ udp_pc = "done" =>
               written = write_chunks([k \in arrived |-> SourceChunk(k)], 0,
                                      expected_chunks(Len(file)))

\* a chunk was delivered more than once and the session ended with the file
C11_Witness ==
    /\ udp_pc = "done"
    /\ repeated # {}
    /\ Cardinality(arrived) >= 2
    /\ written = file
    /\ report = "success"

\* C12: when the server has sent the whole file, some chunk has not arrived
\* and the session has ended, incomplete is reported, the file written is as long as the announced size, and every
\* byte outside the ranges of the missing chunks equals the source byte at
\* the same offset.
C12_GapTolerance ==
    (udp_pc = "done" /\ srv_pc = "done" /\ arrived # AllChunks) =>
        /\ report = "incomplete"
        /\ Len(written) = download_file_size
        /\ \A i \in 1..Len(file) :
               ((i - 1) \div chunk_size) \in arrived => written[i] = file[i]

\* str.startswith
startswith(w, prefix) ==
    Len(w) >= Len(prefix) /\ SubSeq(w, 1, Len(prefix)) = prefix

\* The frame is an announce, a data block, a datagram or a completion
IsTransfer(d) ==
    \/ d.msg[1] \in {"<block>", "<datagram>"}
    \/ startswith(d.msg[1], "DOWNLOAD_")

\* C16: /DOWNLOAD of a name that is not in shared storage, or that is no
\* regular file, is answered (the reply being writable) with exactly one ERROR
\* frame to the requester: no announce, block, datagram or completion is
\* sent, and registry and groups stay as they were.
C16_DownloadValidation ==
    (/\ IsCommand("/DOWNLOAD", 2)
     /\ event.sock \notin before.failing
     /\ ~(path_exists(<<event.frame[2]>>) /\ path_isfile(<<event.frame[2]>>))) =>
        /\ Len(delivered) = 1
        /\ delivered[1].to = event.sock
        /\ startswith(delivered[1].msg[1], "ERROR: ")
        /\ \A i \in DOMAIN delivered : ~IsTransfer(delivered[i])
        /\ clients = before.clients
        /\ groups = before.groups

\* a directory is asked for while others are registered and a group exists
C16_Witness ==
    /\ IsCommand("/DOWNLOAD", 2)
    /\ event.frame[2] = "d"
    /\ Len(before.clients) = 3
    /\ before.groups # <<>>
    /\ delivered = << [to |-> event.sock, msg |-> not_a_file_msg(<<"d">>)] >>

\* C17: a registered connection leaves the registry during an event only if
\* a write to it fails, or it is the event's own connection and the event is
\* its /LEAVE, its end of stream, read failure or broken frame (receive_message
\* returned None) or an exceptional condition on it; any other frame it sends
\* leaves it registered.
C17_RemovedOnlyFor ==
    \A r \in ClientSocks(before.clients) :
        ~Is(r) =>
            \/ r \in before.failing
            \/ /\ r = event.sock
               /\ \/ event.op = "exceptional"
                  \/ event.frame = NoMsg
                  \/ IsCommand("/LEAVE", 1)

\* C19: a frame whose first word is no command keyword is broadcast as it is
\* (every send succeeding): every other registered connection receives exactly
\* "<S>: <frame>", S receives nothing, registry and groups stay as they were.
C19_ImplicitBroadcast ==
    (/\ event.op = "message"
     /\ event.frame # NoMsg
     /\ Len(event.frame) >= 1
     /\ upper(event.frame[1]) \notin Keywords
     /\ before.failing = {}) =>
        /\ \A s \in ClientSocks(before.clients) :
               IF s = event.sock THEN Received(s) = <<>>
               ELSE Received(s) =
                        << [to |-> s, msg |-> SenderName \o <<":">> \o event.frame] >>
        /\ clients = before.clients
        /\ groups = before.groups

\* a mistyped command of three words reaches two other connections
C19_Witness ==
    /\ event.op = "message"
    /\ event.frame = <<"/BRODCAST", "hi", "there">>
    /\ before.failing = {}
    /\ Len(before.clients) = 3
    /\ before.groups # <<>>
    /\ Len(delivered) = 2

\* The event is a command that lacks a required argument
MissingArgs ==
    /\ event.op = "message"
    /\ event.frame # NoMsg
    /\ Len(event.frame) >= 1
    /\ \/ upper(event.frame[1]) \in {"/UNICAST", "/GROUP"} /\ Len(event.frame) < 3
       \/ /\ upper(event.frame[1]) \in {"/JOINGROUP", "/LEAVEGROUP", "/DOWNLOAD"}
          /\ Len(event.frame) < 2

\* C20: a command that lacks a required argument is answered (the reply being
\* writable) with exactly one frame, the usage notice of that command to its
\* sender; nobody else receives anything, no transfer starts, registry and
\* groups stay as they were.
C20_UsageOnly ==
    (MissingArgs /\ event.sock \notin before.failing) =>
        /\ Len(delivered) = 1
        /\ delivered[1].to = event.sock
        /\ startswith(delivered[1].msg[1], "Usage: " \o upper(event.frame[1]))
        /\ clients = before.clients
        /\ groups = before.groups

\* /GROUP with a group name and no text, the group having another member
C20_Witness ==
    /\ MissingArgs
    /\ event.frame = <<"/GROUP", "g1">>
    /\ event.sock \notin before.failing
    /\ MembersBefore(<<"g1">>) \ {event.sock} # {}
    /\ Len(delivered) = 1

\* The data of the blocks among the server's writes, concatenated
RECURSIVE BlockData(_)
BlockData(out) ==
    IF out = <<>> THEN <<>>
    ELSE (IF Head(out).msg[1] = "<block>" THEN Head(out).data ELSE <<>>)
             \o BlockData(Tail(out))

\* Nothing more will reach the client, and its receive thread is waiting in
\* select or in a recv, or has stopped
ClientWaits ==
    /\ stream = <<>>
    /\ buf = <<>>
    /\ \/ cl_pc \in {"select", "file_len", "stopped"}
       \/ cl_pc = "body" /\ Len(message_buf) < message_len
       \/ cl_pc = "file_body" /\ Len(chunk_buf) < chunk_len

\* C13: for /DOWNLOAD f of the shared regular file in reliable mode (TCP or
\* no mode given) the server writes to the requester, and to nobody else,
\* DOWNLOAD_START:f:<size>, then blocks whose data concatenated are the file,
\* then DOWNLOAD_COMPLETE:f:<size>; and once the client has read all of it,
\* its copy equals the file and it has printed the completion with that size.
C13_ReliableDownload ==
    (request.kind = "download" /\ ~closed) =>
        /\ Len(delivered) >= 2
        /\ \A i \in DOMAIN delivered : delivered[i].to = event.sock
        /\ delivered[1].msg = << "DOWNLOAD_START:f:" \o ToString(Len(file)) >>
        /\ delivered[Len(delivered)].msg =
               << "DOWNLOAD_COMPLETE:f:" \o ToString(Len(file)) >>
        /\ \A i \in 2..(Len(delivered) - 1) : delivered[i].msg = <<"<block>">>
        /\ BlockData(delivered) = file
        /\ ClientWaits =>
               /\ saved = file
               /\ \E i \in DOMAIN printed :
                      printed[i] = Notice("complete", chars("f"), Len(file))

\* C14: when the server has written a whole text frame and the stream stays
\* open, the value receive_message returns is that text, in whatever pieces
\* the bytes arrive.
C14_ReceiveWholeFrame ==
    (request.kind = "text" /\ ~closed /\ returned # <<>>) =>
        returned[1] = Some(request.text)

\* C15: the bytes send_message writes for a text are four bytes that hold, big
\* end first, the number of bytes that follow, and then the UTF-8 encoding of
\* the text; receive_message applied to those bytes (all of them being at the
\* socket when it is called) returns the text.
C15_FramingRoundTrip ==
    request.kind = "text" =>
        /\ Len(wrote) = 4 + Len(encode(request.text))
        /\ unpack(SubSeq(wrote, 1, 4)) = Len(wrote) - 4
        /\ SubSeq(wrote, 5, Len(wrote)) = encode(request.text)
        /\ (returned # <<>> /\ whole) => returned[1] = Some(request.text)

\* a text of three characters and five bytes has made the round trip
C15_Witness ==
    /\ request.kind = "text"
    /\ request.text = <<"a", "U+8364", "b">>
    /\ Len(wrote) = 9
    /\ whole
    /\ returned = << Some(request.text) >>

\* the empty text has made the round trip
C15_WitnessEmpty ==
    /\ request.kind = "text"
    /\ request.text = <<>>
    /\ wrote = <<0, 0, 0, 0>>
    /\ whole
    /\ returned = << Some(<<>>) >>

\* C18: a frame a registered connection has written is read by the server in
\* the end, whatever another peer does, also a peer that was accepted and has
\* not sent its username.
C18_NoStall == \A s \in Sockets : Unread(s) ~> ~Unread(s)

\* C27: whenever the datagram receive path reports success, whichever chunks
\* were lost, repeated or overtaken on the way, the file it wrote equals the
\* source file and no chunk is missing from its map.
C27_SuccessMeansEqual ==
    report = "success" =>
        /\ written = file
        /\ DOMAIN download_chunks = AllChunks

\* success after two of three chunks came more than once, the last chunk
\* having come first
C27_Witness ==
    /\ report = "success"
    /\ Cardinality(AllChunks) = 3
    /\ repeated = {1, 2}
    /\ written = file
    /\ file[1] # file[Len(file)]

\* The payloads of a sequence of datagrams, concatenated
RECURSIVE Payloads(_)
Payloads(ds) ==
    IF ds = <<>> THEN <<>> ELSE Head(ds).data \o Payloads(Tail(ds))

\* The control frame with this tag is on the stream, not yet read
OnStream(tag) == \E i \in DOMAIN ctrl : ctrl[i].tag = tag

\* C24: the datagrams the send path hands to sendto carry the chunk numbers
\* 0, 1, 2, ... in this order, each header's length is the length of its
\* payload, every payload but the last is a full chunk and none is empty;
\* once the loop is over there are ceil(n / chunk size) of them and their
\* payloads put together are the file.  The announce and the port frame are
\* written before the first datagram, the completion frame after the last.
C24_DatagramSplit ==
    /\ \A i \in DOMAIN sent :
           /\ sent[i].chunk_num = i - 1
           /\ sent[i].chunk_len = Len(sent[i].data)
           /\ Len(sent[i].data) \in 1..chunk_size
           /\ i < Len(sent) => Len(sent[i].data) = chunk_size
    /\ sent # <<>> =>
           /\ OnStream("DOWNLOAD_START_UDP") \/ download_file_size # Unset
           /\ OnStream("UDP_PORT") \/ udp_pc # "none"
    /\ srv_pc \in {"complete", "done"} =>
           /\ Len(sent) * chunk_size >= Len(file)
           /\ Len(sent) * chunk_size < Len(file) + chunk_size
           /\ Payloads(sent) = file
    /\ OnStream("DOWNLOAD_COMPLETE_UDP") => srv_pc = "done"
    /\ srv_pc = "done" =>
           OnStream("DOWNLOAD_COMPLETE_UDP") \/ download_file_size # Unset

\* a file of three chunks, the last one short, has been sent and completed
C24_Witness ==
    /\ srv_pc = "done"
    /\ Len(sent) = 3
    /\ Len(sent[3].data) < chunk_size
    /\ Payloads(sent) = file

\* C25: over a network that loses no datagram addressed to a bound socket,
\* while the session lasts every chunk the server has sent has reached the
\* receive path or is still on its way: none found the port unbound.
C25_NoChunkLost ==
    udp_pc # "done" =>
        \A i \in DOMAIN sent :
            sent[i].chunk_num \in arrived \/ sent[i] \in net

\* A receive thread is running
Receiving == udp_pc \in {"test", "recv", "write"}

\* C23: while a datagram receive is in progress nothing but its own receive
\* path touches the session: the expected size stays, the byte counter never
\* goes back and no stored chunk is dropped or replaced.
C23_SessionUntouched ==
    [][Receiving =>
          /\ download_file_size' = download_file_size
          /\ download_received' >= download_received
          /\ \A k \in DOMAIN download_chunks :
                 /\ k \in DOMAIN download_chunks'
                 /\ download_chunks'[k] = download_chunks[k]]_vars

\* The connections removed while the event was processed
Removed == { s \in ClientSocks(before.clients) : ~Is(s) }

\* C26: while an event is processed, every connection still registered at
\* its end has received "<u> has left" once for each connection of username
\* u removed during the event, and for no other username: a removal is
\* announced once, also when it happens inside another removal's broadcast
\* or when remove_client is called again for a connection already removed.
C26_LeftOnce ==
    /\ \A r \in ClientSocks(clients) :
           \A u \in Usernames :
               Count(r, leave_msg(u)) =
                   Cardinality({ s \in Removed :
                                   username_of(before.clients, s) = u })
    /\ LET st == [clients |-> clients, groups |-> groups, failing |-> failing,
                  out |-> <<>>, exc |-> FALSE]
       IN \A s \in Sockets \ ClientSocks(clients) :
              /\ remove_client(st, s) = st
              /\ handle_client_message(st, s, NoMsg) = st

\* a connection leaves, the notice fails on a second one, which is removed
\* inside the broadcast, and a third one has received both notices
C26_Witness ==
    /\ event.op = "message"
    /\ event.frame = <<"/LEAVE">>
    /\ Cardinality(Removed) = 2
    /\ \E r \in ClientSocks(clients) :
           /\ Len(Received(r)) = 2
           /\ \A i \in 1..2 : Received(r)[i].msg[Len(Received(r)[i].msg)] = "has left"

\* C21: the loop of Server.start is never left because of a connection: after
\* an end of stream, a frame cut short, or a send that fails in a reply, a
\* broadcast, a group delivery, a leave notice or a file transfer, no
\* exception has reached the loop, which goes on to the next ready socket.
C21_LoopSurvives == running

\* the requester of a download is gone: the transfer's sends fail, so does
\* the error report, the requester is removed and the others are served on
C21_Witness ==
    /\ running
    /\ event.op = "message"
    /\ event.frame = <<"/DOWNLOAD", "f">>
    /\ event.sock \in before.failing
    /\ ~Is(event.sock)
    /\ clients # <<>>
    /\ delivered # <<>>

\* C22: on the client's socket the length prefix of a frame is followed at
\* once by that frame's payload: no write of another frame, by the other
\* thread, comes between them.
C22_FrameContiguous ==
    \A i \in DOMAIN up :
        (up[i].part = "prefix" /\ i < Len(up)) =>
            /\ up[i + 1].by = up[i].by
            /\ up[i + 1].part = "payload"

====
